---------------------------- MODULE Spec2Model ----------------------------
(***************************************************************************)
(* RDMnetBroker configuration loader (src/core/broker_config.cpp).         *)
(*                                                                         *)
(* A BrokerConfig holds the last decoded JSON document (current_), the     *)
(* settings record it fills in (settings) and the CID it falls back on     *)
(* (default_cid()).  Read() decodes a document and runs ValidateCurrent(), *)
(* which walks kSettingsValidatorArray in order and, per entry, stores the *)
(* default, or type-checks and validates-and-stores the value, returning   *)
(* kInvalidSetting at the first entry that fails.                          *)
(*                                                                         *)
(* Text is modelled as sequences of one-character strings.  JSON numbers   *)
(* are 64-bit patterns written as four base-65536 limbs, most significant  *)
(* first, so that the conversion to int64_t and the narrowing casts keep   *)
(* their width.                                                            *)
(***************************************************************************)
EXTENDS Integers, Sequences, FiniteSets, TLC

\* ------------------------------------------------------------------ bounds

\* Read() calls made on one BrokerConfig object before it is discarded.
MaxLoads == 2

\* Longest listen_macs / listen_addrs array in an input document.
MaxListLen == 2

\* ------------------------------------------------- E1.33 string lengths

E133_SERVICE_NAME_STRING_PADDED_LENGTH == 64
E133_MANUFACTURER_STRING_PADDED_LENGTH == 250
E133_MODEL_STRING_PADDED_LENGTH == 250
E133_SCOPE_STRING_PADDED_LENGTH == 63

\* -------------------------------------------------------------------- text

Min2(a, b) == IF a <= b THEN a ELSE b

\* std::string::substr(0, n)
Substr0(str, n) == SubSeq(str, 1, Min2(n, Len(str)))

HexDigits == {"0","1","2","3","4","5","6","7","8","9",
              "a","b","c","d","e","f","A","B","C","D","E","F"}

DecDigits == {"0","1","2","3","4","5","6","7","8","9"}

HexOf(c) ==
  CASE c = "0" -> 0 [] c = "1" -> 1 [] c = "2" -> 2 [] c = "3" -> 3
    [] c = "4" -> 4 [] c = "5" -> 5 [] c = "6" -> 6 [] c = "7" -> 7
    [] c = "8" -> 8 [] c = "9" -> 9
    [] c \in {"a", "A"} -> 10 [] c \in {"b", "B"} -> 11
    [] c \in {"c", "C"} -> 12 [] c \in {"d", "D"} -> 13
    [] c \in {"e", "E"} -> 14 [] c \in {"f", "F"} -> 15

LowerHex == <<"0","1","2","3","4","5","6","7","8","9","a","b","c","d","e","f">>

\* The hexadecimal digits of a text, in order, as nibble values.
RECURSIVE Nibbles(_)
Nibbles(str) ==
  IF str = <<>> THEN <<>>
  ELSE IF Head(str) \in HexDigits
       THEN <<HexOf(Head(str))>> \o Nibbles(Tail(str))
       ELSE Nibbles(Tail(str))

\* The value of a run of digits in the given base.
RECURSIVE DigitsValue(_, _)
DigitsValue(str, base) ==
  IF str = <<>> THEN 0
  ELSE DigitsValue(SubSeq(str, 1, Len(str) - 1), base) * base + HexOf(str[Len(str)])

\* The pieces of a text between occurrences of a separator character.
RECURSIVE Split(_, _)
Split(str, sep) ==
  IF \A i \in 1..Len(str) : str[i] # sep THEN <<str>>
  ELSE LET k == CHOOSE i \in 1..Len(str) :
                  str[i] = sep /\ \A j \in 1..(i - 1) : str[j] # sep
       IN  <<SubSeq(str, 1, k - 1)>> \o Split(SubSeq(str, k + 1, Len(str)), sep)

\* --------------------------------------------------------- etcpal::Uuid

NullUuid == [i \in 1..32 |-> 0]

\* etcpal::Uuid::FromString: the first 32 hexadecimal digits of the text,
\* separators skipped; the null UUID when the text holds fewer.
UuidFromString(str) ==
  LET nib == Nibbles(str)
  IN  IF Len(nib) >= 32 THEN SubSeq(nib, 1, 32) ELSE NullUuid

UuidIsNull(uuid) == uuid = NullUuid

\* etcpal::Uuid::ToString: lower-case 8-4-4-4-12.
UuidToString(uuid) ==
  LET hex(a, b) == [i \in 1..(b - a + 1) |-> LowerHex[uuid[a + i - 1] + 1]]
  IN  hex(1, 8) \o <<"-">> \o hex(9, 12) \o <<"-">> \o hex(13, 16) \o <<"-">>
        \o hex(17, 20) \o <<"-">> \o hex(21, 32)

\* ------------------------------------------------------ etcpal::MacAddr

NullMac == [i \in 1..6 |-> 0]

\* etcpal::MacAddr::FromString: six colon-separated two-digit hexadecimal
\* octets; the null MAC when the text is anything else.
MacFromString(str) ==
  LET parts == Split(str, ":")
  IN  IF /\ Len(parts) = 6
         /\ \A i \in 1..6 : /\ Len(parts[i]) = 2
                            /\ \A j \in 1..2 : parts[i][j] \in HexDigits
      THEN [i \in 1..6 |-> DigitsValue(parts[i], 16)]
      ELSE NullMac

MacIsNull(mac) == mac = NullMac

\* ------------------------------------------------------- etcpal::IpAddr

InvalidIp == [type |-> "invalid", addr |-> <<>>]

\* Dotted-decimal IPv4: four parts of one to three digits, no leading zero,
\* each at most 255.
IsV4Part(p) ==
  /\ Len(p) \in 1..3
  /\ \A j \in 1..Len(p) : p[j] \in DecDigits
  /\ (Len(p) > 1 => p[1] # "0")
  /\ DigitsValue(p, 10) <= 255

\* One group of an IPv6 address: one to four hexadecimal digits.
IsV6Group(g) == Len(g) \in 1..4 /\ \A j \in 1..Len(g) : g[j] \in HexDigits

V6Groups(str) == IF str = <<>> THEN <<>> ELSE Split(str, ":")

\* Index of the first "::" of the text, 0 when there is none.
DoubleColon(str) ==
  LET at == {i \in 1..(Len(str) - 1) : str[i] = ":" /\ str[i + 1] = ":"}
  IN  IF at = {} THEN 0 ELSE CHOOSE i \in at : \A j \in at : i <= j

\* etcpal::IpAddr::FromString: an IPv4 address in dotted decimal or an IPv6
\* address in colon-hexadecimal with at most one "::"; invalid otherwise.
IpFromString(str) ==
  LET v4 == Split(str, ".")
      dc == DoubleColon(str)
      left == IF dc = 0 THEN V6Groups(str) ELSE V6Groups(SubSeq(str, 1, dc - 1))
      right == IF dc = 0 THEN <<>> ELSE V6Groups(SubSeq(str, dc + 2, Len(str)))
      fill == 8 - Len(left) - Len(right)
  IN  IF Len(v4) = 4 /\ \A i \in 1..4 : IsV4Part(v4[i])
      THEN [type |-> "v4", addr |-> [i \in 1..4 |-> DigitsValue(v4[i], 10)]]
      ELSE IF /\ \A i \in 1..Len(left) : IsV6Group(left[i])
              /\ \A i \in 1..Len(right) : IsV6Group(right[i])
              /\ IF dc = 0 THEN fill = 0 ELSE fill >= 1
           THEN [type |-> "v6",
                 addr |-> [i \in 1..Len(left) |-> DigitsValue(left[i], 16)]
                            \o [i \in 1..fill |-> 0]
                            \o [i \in 1..Len(right) |-> DigitsValue(right[i], 16)]]
           ELSE InvalidIp

IpIsValid(ip) == ip.type # "invalid"

\* -------------------------------------------------------------- json values

\* A key that the document does not contain.
Absent == [t |-> "absent"]

JNull == [t |-> "null"]
JBoolean == [t |-> "boolean"]
JFloat == [t |-> "number_float"]
JString(str) == [t |-> "string", s |-> str]
\* A number the parser read without a sign (stored as uint64_t).
JUnsigned(bits) == [t |-> "number_unsigned", n |-> bits]
\* A negative number (stored as int64_t, two's complement).
JInteger(bits) == [t |-> "number_integer", n |-> bits]
JArray(elems) == [t |-> "array", elems |-> elems]
JObject(fields) == [t |-> "object", fields |-> fields]

\* json::is_number_integer(): signed or unsigned integer.
IsNumberInteger(val) == val.t \in {"number_unsigned", "number_integer"}

\* json::contains(key) on an object value.
Contains(val, key) == val.fields[key] # Absent

\* ------------------------------------------------------- 64-bit integers

\* A small non-negative number as a 64-bit pattern.
Bits(lo) == <<0, 0, 0, lo>>

\* `const int64_t x = val`: the stored 64 bits read as a signed integer; an
\* unsigned value of 2^63 or more becomes negative.
ToInt64(val) == val.n

\* Signed order on 64-bit patterns: flip the sign bit, then compare the limbs
\* from the most significant down.
Int64Key(x) == <<(x[1] + 32768) % 65536, x[2], x[3], x[4]>>

LimbsLeq(a, b) ==
  \/ a = b
  \/ \E i \in 1..4 : a[i] < b[i] /\ \A j \in 1..(i - 1) : a[j] = b[j]

Int64Leq(a, b) == LimbsLeq(Int64Key(a), Int64Key(b))
Int64Lt(a, b) == a # b /\ Int64Leq(a, b)

\* static_cast to an unsigned type of `width` 16-bit limbs.
Narrow(x, width) == SubSeq(x, 5 - width, 4)

\* Integral promotion of an unsigned value of fewer limbs to int64_t.
Widen(u) == [i \in 1..(4 - Len(u)) |-> 0] \o u

\* std::numeric_limits<IntType>::min() and max() for an unsigned IntType.
NumericLimits(width) == <<[i \in 1..width |-> 0], [i \in 1..width |-> 65535]>>

\* ------------------------------------------------------- settings record

\* A default-constructed settings record: null CID, empty DNS strings, the
\* E1.33 default scope, no listen port, empty address sets, zero limits.
NewBrokerSettings ==
  [cid |-> NullUuid,
   uid_type |-> "dynamic",
   uid |-> [manu |-> <<0>>, id |-> <<0, 0>>],
   dns |-> [service_instance_name |-> <<>>, manufacturer |-> <<>>, model |-> <<>>],
   scope |-> <<"d","e","f","a","u","l","t">>,
   listen_port |-> <<0>>,
   listen_macs |-> {},
   listen_addrs |-> {},
   max_connections |-> <<0, 0>>,
   max_controllers |-> <<0, 0>>,
   max_controller_messages |-> <<0, 0>>,
   max_devices |-> <<0, 0>>,
   max_device_messages |-> <<0, 0>>,
   max_reject_connections |-> <<0, 0>>]

\* BrokerSettings::SetStaticUid / SetDynamicUid: select the variant.
SetStaticUid(settings, static_uid) ==
  [settings EXCEPT !.uid_type = "static", !.uid = static_uid]

SetDynamicUid(settings, manufacturer_id) ==
  [settings EXCEPT !.uid_type = "dynamic",
                   !.uid = [manu |-> manufacturer_id, id |-> <<0, 0>>]]

\* ------------------------------------------------------------ validators
\* Each returns [ok, settings]: the bool the C++ function returns and the
\* settings record as the function leaves it.  `config` is the BrokerConfig:
\* [default_cid, settings].

ValidateAndStoreCid(val, config) ==
  LET cid == UuidFromString(val.s)
  IN  [ok |-> ~UuidIsNull(cid), settings |-> [config.settings EXCEPT !.cid = cid]]

kStatic == <<"s","t","a","t","i","c">>
kDynamic == <<"d","y","n","a","m","i","c">>

\* ValidateAndStoreUid without the test that a dynamic uid has no device_id.
DynamicIgnoresDeviceId(val, config) ==
  IF /\ Contains(val, "type") /\ val.fields["type"].t = "string"
     /\ Contains(val, "manufacturer_id") /\ IsNumberInteger(val.fields["manufacturer_id"])
  THEN LET type == val.fields["type"].s
           manufacturer_id == ToInt64(val.fields["manufacturer_id"])
       IN  IF Int64Lt(Bits(0), manufacturer_id) /\ Int64Lt(manufacturer_id, Bits(32768))
           THEN IF /\ type = kStatic /\ Contains(val, "device_id")
                   /\ IsNumberInteger(val.fields["device_id"])
                THEN LET device_id == ToInt64(val.fields["device_id"])
                     IN  IF /\ Int64Leq(Bits(0), device_id)
                            /\ Int64Leq(device_id, <<0, 0, 65535, 65535>>)
                         THEN [ok |-> TRUE,
                               settings |-> SetStaticUid(config.settings,
                                              [manu |-> Narrow(manufacturer_id, 1),
                                               id |-> Narrow(device_id, 2)])]
                         ELSE [ok |-> FALSE, settings |-> config.settings]
                ELSE IF type = kDynamic
                     THEN [ok |-> TRUE,
                           settings |-> SetDynamicUid(config.settings,
                                                      Narrow(manufacturer_id, 1))]
                     ELSE [ok |-> FALSE, settings |-> config.settings]
           ELSE [ok |-> FALSE, settings |-> config.settings]
  ELSE [ok |-> FALSE, settings |-> config.settings]

ValidateAndStoreUid(val, config) ==
  IF /\ Contains(val, "type") /\ val.fields["type"].t = "string"
     /\ Contains(val, "manufacturer_id") /\ IsNumberInteger(val.fields["manufacturer_id"])
  THEN LET type == val.fields["type"].s
           manufacturer_id == ToInt64(val.fields["manufacturer_id"])
       IN  IF Int64Lt(Bits(0), manufacturer_id) /\ Int64Lt(manufacturer_id, Bits(32768))
           THEN IF /\ type = kStatic /\ Contains(val, "device_id")
                   /\ IsNumberInteger(val.fields["device_id"])
                THEN LET device_id == ToInt64(val.fields["device_id"])
                     IN  IF /\ Int64Leq(Bits(0), device_id)
                            /\ Int64Leq(device_id, <<0, 0, 65535, 65535>>)
                         THEN [ok |-> TRUE,
                               settings |-> SetStaticUid(config.settings,
                                              [manu |-> Narrow(manufacturer_id, 1),
                                               id |-> Narrow(device_id, 2)])]
                         ELSE [ok |-> FALSE, settings |-> config.settings]
                ELSE IF type = kDynamic /\ ~Contains(val, "device_id")
                     THEN [ok |-> TRUE,
                           settings |-> SetDynamicUid(config.settings,
                                                      Narrow(manufacturer_id, 1))]
                     ELSE [ok |-> FALSE, settings |-> config.settings]
           ELSE [ok |-> FALSE, settings |-> config.settings]
  ELSE [ok |-> FALSE, settings |-> config.settings]

\* ValidateAndStoreString truncating to the padded length, one past max_size.
TruncatesOnePast(val, string, max_size, truncation_allowed) ==
  LET str_val == val.s
  IN  IF str_val # <<>>
      THEN IF truncation_allowed
           THEN [ok |-> TRUE, string |-> Substr0(str_val, max_size + 1)]
           ELSE IF Len(str_val) <= max_size
                THEN [ok |-> TRUE, string |-> str_val]
                ELSE [ok |-> FALSE, string |-> string]
      ELSE [ok |-> FALSE, string |-> string]

\* Returns [ok, string]: `string` is the std::string& the caller passed.
ValidateAndStoreString(val, string, max_size, truncation_allowed) ==
  LET str_val == val.s
  IN  IF str_val # <<>>
      THEN IF truncation_allowed
           THEN [ok |-> TRUE, string |-> Substr0(str_val, max_size)]
           ELSE IF Len(str_val) <= max_size
                THEN [ok |-> TRUE, string |-> str_val]
                ELSE [ok |-> FALSE, string |-> string]
      ELSE [ok |-> FALSE, string |-> string]

\* ValidateAndStoreInt comparing after the cast to IntType instead of before.
NarrowsBeforeRangeCheck(val, setting, limits, width) ==
  LET int_val == Widen(Narrow(ToInt64(val), width))
  IN  IF Int64Leq(Widen(limits[1]), int_val) /\ Int64Leq(int_val, Widen(limits[2]))
      THEN [ok |-> TRUE, setting |-> Narrow(int_val, width)]
      ELSE [ok |-> FALSE, setting |-> setting]

\* Returns [ok, setting]: `setting` is the IntType& the caller passed, an
\* unsigned integer of `width` limbs; `limits` is a pair of such integers.
ValidateAndStoreInt(val, setting, limits, width) ==
  LET int_val == ToInt64(val)
  IN  IF Int64Leq(Widen(limits[1]), int_val) /\ Int64Leq(int_val, Widen(limits[2]))
      THEN [ok |-> TRUE, setting |-> Narrow(int_val, width)]
      ELSE [ok |-> FALSE, setting |-> setting]

\* The loop of ValidateAndStoreMacList without listen_macs.clear() on failure.
RECURSIVE KeepsEarlierMacs(_, _, _)
KeepsEarlierMacs(mac_list, k, listen_macs) ==
  IF k > Len(mac_list) THEN [ok |-> TRUE, set |-> listen_macs]
  ELSE LET json_mac == mac_list[k]
       IN  IF json_mac.t # "string" THEN [ok |-> FALSE, set |-> listen_macs]
           ELSE LET mac == MacFromString(json_mac.s)
                IN  IF MacIsNull(mac) THEN [ok |-> FALSE, set |-> listen_macs]
                    ELSE KeepsEarlierMacs(mac_list, k + 1, listen_macs \cup {mac})

\* The loop of ValidateAndStoreMacList from element k on: [ok, listen_macs].
RECURSIVE MacListFrom(_, _, _)
MacListFrom(mac_list, k, listen_macs) ==
  IF k > Len(mac_list) THEN [ok |-> TRUE, set |-> listen_macs]
  ELSE LET json_mac == mac_list[k]
       IN  IF json_mac.t # "string" THEN [ok |-> FALSE, set |-> {}]
           ELSE LET mac == MacFromString(json_mac.s)
                IN  IF MacIsNull(mac) THEN [ok |-> FALSE, set |-> {}]
                    ELSE MacListFrom(mac_list, k + 1, listen_macs \cup {mac})

ValidateAndStoreMacList(val, config) ==
  LET r == MacListFrom(val.elems, 1, config.settings.listen_macs)
  IN  [ok |-> r.ok, settings |-> [config.settings EXCEPT !.listen_macs = r.set]]

\* The loop of ValidateAndStoreIpList from element k on: [ok, listen_addrs].
RECURSIVE IpListFrom(_, _, _)
IpListFrom(ip_list, k, listen_addrs) ==
  IF k > Len(ip_list) THEN [ok |-> TRUE, set |-> listen_addrs]
  ELSE LET json_ip == ip_list[k]
       IN  IF json_ip.t # "string" THEN [ok |-> FALSE, set |-> {}]
           ELSE LET ip == IpFromString(json_ip.s)
                IN  IF ~IpIsValid(ip) THEN [ok |-> FALSE, set |-> {}]
                    ELSE IpListFrom(ip_list, k + 1, listen_addrs \cup {ip})

ValidateAndStoreIpList(val, config) ==
  LET r == IpListFrom(val.elems, 1, config.settings.listen_addrs)
  IN  [ok |-> r.ok, settings |-> [config.settings EXCEPT !.listen_addrs = r.set]]

\* ---------------------------------------------------------- schema table

\* kSettingsValidatorArray: per entry the JSON pointer, the expected value type
\* and whether a store_default function is present.  The entry's
\* validate_and_store and store_default are ValidateAndStore and StoreDefault
\* below, selected by the pointer.
kSettingsValidatorArray ==
  << [pointer |-> "/cid",                          type |-> "string",          store_default |-> TRUE],
     [pointer |-> "/uid",                          type |-> "object",          store_default |-> TRUE],
     [pointer |-> "/dns_sd/service_instance_name", type |-> "string",          store_default |-> TRUE],
     [pointer |-> "/dns_sd/manufacturer",          type |-> "string",          store_default |-> TRUE],
     [pointer |-> "/dns_sd/model",                 type |-> "string",          store_default |-> TRUE],
     [pointer |-> "/scope",                        type |-> "string",          store_default |-> FALSE],
     [pointer |-> "/listen_port",                  type |-> "number_unsigned", store_default |-> FALSE],
     [pointer |-> "/listen_macs",                  type |-> "array",           store_default |-> FALSE],
     [pointer |-> "/listen_addrs",                 type |-> "array",           store_default |-> FALSE],
     [pointer |-> "/max_connections",              type |-> "number_unsigned", store_default |-> FALSE],
     [pointer |-> "/max_controllers",              type |-> "number_unsigned", store_default |-> FALSE],
     [pointer |-> "/max_controller_messages",      type |-> "number_unsigned", store_default |-> FALSE],
     [pointer |-> "/max_devices",                  type |-> "number_unsigned", store_default |-> FALSE],
     [pointer |-> "/max_device_messages",          type |-> "number_unsigned", store_default |-> FALSE],
     [pointer |-> "/max_reject_connections",       type |-> "number_unsigned", store_default |-> FALSE] >>

NumSettings == Len(kSettingsValidatorArray)

Pointers == {kSettingsValidatorArray[i].pointer : i \in 1..NumSettings}

\* The max_* entries: pointer to the settings member the entry's lambda names.
MaxLimitMember ==
  [p \in {"/max_connections", "/max_controllers", "/max_controller_messages",
          "/max_devices", "/max_device_messages", "/max_reject_connections"} |->
     CASE p = "/max_connections" -> "max_connections"
       [] p = "/max_controllers" -> "max_controllers"
       [] p = "/max_controller_messages" -> "max_controller_messages"
       [] p = "/max_devices" -> "max_devices"
       [] p = "/max_device_messages" -> "max_device_messages"
       [] p = "/max_reject_connections" -> "max_reject_connections"]

\* The validate_and_store member of the entry with the given pointer.
ValidateAndStore(pointer, val, config) ==
  LET st == config.settings
  IN  CASE pointer = "/cid" -> ValidateAndStoreCid(val, config)
        [] pointer = "/uid" -> ValidateAndStoreUid(val, config)
        [] pointer = "/dns_sd/service_instance_name" ->
             LET r == ValidateAndStoreString(val, st.dns.service_instance_name,
                        E133_SERVICE_NAME_STRING_PADDED_LENGTH - 1, TRUE)
             IN  [ok |-> r.ok,
                  settings |-> [st EXCEPT !.dns.service_instance_name = r.string]]
        [] pointer = "/dns_sd/manufacturer" ->
             LET r == ValidateAndStoreString(val, st.dns.manufacturer,
                        E133_MANUFACTURER_STRING_PADDED_LENGTH - 1, TRUE)
             IN  [ok |-> r.ok, settings |-> [st EXCEPT !.dns.manufacturer = r.string]]
        [] pointer = "/dns_sd/model" ->
             LET r == ValidateAndStoreString(val, st.dns.model,
                        E133_MODEL_STRING_PADDED_LENGTH - 1, TRUE)
             IN  [ok |-> r.ok, settings |-> [st EXCEPT !.dns.model = r.string]]
        [] pointer = "/scope" ->
             LET r == ValidateAndStoreString(val, st.scope,
                        E133_SCOPE_STRING_PADDED_LENGTH - 1, FALSE)
             IN  [ok |-> r.ok, settings |-> [st EXCEPT !.scope = r.string]]
        [] pointer = "/listen_port" ->
             LET r == ValidateAndStoreInt(val, st.listen_port, <<(<<1024>>), (<<65535>>)>>, 1)
             IN  [ok |-> r.ok, settings |-> [st EXCEPT !.listen_port = r.setting]]
        [] pointer = "/listen_macs" -> ValidateAndStoreMacList(val, config)
        [] pointer = "/listen_addrs" -> ValidateAndStoreIpList(val, config)
        [] OTHER ->
             LET member == MaxLimitMember[pointer]
                 r == ValidateAndStoreInt(val, st[member], NumericLimits(2), 2)
             IN  [ok |-> r.ok, settings |-> [st EXCEPT ![member] = r.setting]]

\* StoreDefault with the manufacturer default built from the CID like the
\* service instance name.
ManufacturerDefaultFromCid(pointer, config) ==
  LET st == config.settings
  IN  CASE pointer = "/cid" -> [st EXCEPT !.cid = config.default_cid]
        [] pointer = "/uid" -> SetDynamicUid(st, <<25972>>)
        [] pointer = "/dns_sd/service_instance_name" ->
             [st EXCEPT !.dns.service_instance_name =
                <<"E","T","C"," ","R","D","M","n","e","t"," ","B","r","o","k","e","r"," ">>
                  \o UuidToString(config.default_cid)]
        [] pointer = "/dns_sd/manufacturer" ->
             [st EXCEPT !.dns.manufacturer =
                <<"E","T","C"," ">> \o UuidToString(config.default_cid)]
        [] pointer = "/dns_sd/model" ->
             [st EXCEPT !.dns.model =
                <<"R","D","M","n","e","t"," ","B","r","o","k","e","r"," ",
                  "S","e","r","v","i","c","e">>]

\* The store_default member of the entry with the given pointer (only the
\* first five entries have one): the settings record it leaves.
StoreDefault(pointer, config) ==
  LET st == config.settings
  IN  CASE pointer = "/cid" -> [st EXCEPT !.cid = config.default_cid]
        [] pointer = "/uid" -> SetDynamicUid(st, <<25972>>)
        [] pointer = "/dns_sd/service_instance_name" ->
             [st EXCEPT !.dns.service_instance_name =
                <<"E","T","C"," ","R","D","M","n","e","t"," ","B","r","o","k","e","r"," ">>
                  \o UuidToString(config.default_cid)]
        [] pointer = "/dns_sd/manufacturer" ->
             [st EXCEPT !.dns.manufacturer = <<"E","T","C">>]
        [] pointer = "/dns_sd/model" ->
             [st EXCEPT !.dns.model =
                <<"R","D","M","n","e","t"," ","B","r","o","k","e","r"," ",
                  "S","e","r","v","i","c","e">>]

\* ----------------------------------------------------------------- loader

\* The loop body of ValidateCurrent without the else-branch that stores the
\* default of an absent key.
SkipsDefaultWhenAbsent(setting, current, config) ==
  IF current[setting.pointer] # Absent
  THEN LET val == current[setting.pointer]
       IN  IF val.t = "null" /\ setting.store_default
           THEN [failed |-> FALSE, settings |-> StoreDefault(setting.pointer, config)]
           ELSE IF val.t # setting.type
                THEN [failed |-> TRUE, settings |-> config.settings]
                ELSE LET r == ValidateAndStore(setting.pointer, val, config)
                     IN  [failed |-> ~r.ok, settings |-> r.settings]
  ELSE [failed |-> FALSE, settings |-> config.settings]

\* One pass of the loop body of ValidateCurrent for entry `setting`:
\* [failed, settings].
ValidateSetting(setting, current, config) ==
  IF current[setting.pointer] # Absent
  THEN LET val == current[setting.pointer]
       IN  IF val.t = "null" /\ setting.store_default
           THEN [failed |-> FALSE, settings |-> StoreDefault(setting.pointer, config)]
           ELSE IF val.t # setting.type
                THEN [failed |-> TRUE, settings |-> config.settings]
                ELSE LET r == ValidateAndStore(setting.pointer, val, config)
                     IN  [failed |-> ~r.ok, settings |-> r.settings]
  ELSE IF setting.store_default
       THEN [failed |-> FALSE, settings |-> StoreDefault(setting.pointer, config)]
       ELSE [failed |-> FALSE, settings |-> config.settings]

\* The loop of ValidateCurrent from entry i on: [result, settings, entry],
\* where entry is the index of the entry at which the loop returned
\* kInvalidSetting, 0 when it ran to the end.
RECURSIVE ValidateFrom(_, _, _)
ValidateFrom(i, current, config) ==
  IF i > NumSettings
  THEN [result |-> "kOk", settings |-> config.settings, entry |-> 0]
  ELSE LET r == ValidateSetting(kSettingsValidatorArray[i], current, config)
       IN  IF r.failed
           THEN [result |-> "kInvalidSetting", settings |-> r.settings, entry |-> i]
           ELSE ValidateFrom(i + 1, current, [config EXCEPT !.settings = r.settings])

ValidateCurrent(current, config) == ValidateFrom(1, current, config)

\* ------------------------------------------------------- input documents
\* A decoded document maps each pointer of the table to the value found
\* there, or to Absent.  Keys the table does not name are never looked at.

NoDoc == [p \in Pointers |-> Absent]

With(doc, pointer, val) == [doc EXCEPT ![pointer] = val]

\* A text of n characters: a, b, c, a, b, c, ...
MkStr(n) == [i \in 1..n |-> IF i % 3 = 1 THEN "a" ELSE IF i % 3 = 2 THEN "b" ELSE "c"]

CidTextA == <<"4","9","5","8","a","c","8","f","-","c","d","5","e","-","4","2","c","d","-","a","b","7","e","-","9","7","9","7","b","0","e","f","d","3","a","c">>
CidTextAUpper == <<"4","9","5","8","A","C","8","F","-","C","D","5","E","-","4","2","C","D","-","A","B","7","E","-","9","7","9","7","B","0","E","F","D","3","A","C">>
CidTextNil == <<"0","0","0","0","0","0","0","0","-","0","0","0","0","-","0","0","0","0","-","0","0","0","0","-","0","0","0","0","0","0","0","0","0","0","0","0">>
CidTextBad == <<"n","o","t","-","a","-","u","u","i","d">>
MacTextA == <<"0","0",":","c","0",":","1","6",":","1","2",":","3","4",":","5","6">>
MacTextAUpper == <<"0","0",":","C","0",":","1","6",":","1","2",":","3","4",":","5","6">>
MacTextB == <<"0","0",":","c","0",":","1","6",":","a","b",":","c","d",":","e","f">>
MacTextNull == <<"0","0",":","0","0",":","0","0",":","0","0",":","0","0",":","0","0">>
MacTextBad == <<"0","0",":","c","0",":","1","6",":","1","2",":","3","4">>
IpTextV4 == <<"1","0",".","1","0","1",".","1","3",".","3","7">>
IpTextV6 == <<"2","0","0","1",":","d","b","8",":",":","1","2","3","4",":","5","6","7","8">>
IpTextV6Full == <<"2","0","0","1",":","0","d","b","8",":","0",":","0",":","0",":","0",":","1","2","3","4",":","5","6","7","8">>
IpTextBadOctet == <<"1","0",".","1","0","1",".","1","3",".","2","5","6">>
IpTextBad == <<"n","o","t","-","a","n","-","i","p">>

\* The CIDs a BrokerConfig may generate as its default_cid().
DefaultCids ==
  { UuidFromString(<<"1","1","1","1","1","1","1","1","-","2","2","2","2","-","4","3","3","3","-","8","4","4","4","-","5","5","5","5","5","5","5","5","5","5","5","5">>),
    UuidFromString(<<"a","a","a","a","a","a","a","a","-","b","b","b","b","-","4","c","c","c","-","9","d","d","d","-","e","e","e","e","e","e","e","e","e","e","e","e">>) }

\* "uid" objects: every combination of the three keys over these values.
UidTypeValues ==
  { Absent, JString(kStatic), JString(kDynamic), JString(<<"o","t","h","e","r">>),
    JUnsigned(Bits(1)) }

UidManuValues ==
  { Absent, JUnsigned(Bits(0)), JUnsigned(Bits(1)), JUnsigned(Bits(25972)),
    JUnsigned(Bits(32767)), JUnsigned(Bits(32768)), JUnsigned(<<0, 0, 1, 1>>),
    JUnsigned(<<65535, 65535, 65535, 65535>>), JInteger(<<65535, 65535, 65535, 65535>>),
    JFloat }

UidDeviceValues ==
  { Absent, JNull, JUnsigned(Bits(0)), JUnsigned(<<0, 0, 18, 13398>>),
    JUnsigned(<<0, 0, 65535, 65535>>), JUnsigned(<<0, 1, 0, 0>>),
    JUnsigned(<<65535, 65535, 65535, 65535>>), JInteger(<<65535, 65535, 65535, 65535>>),
    JString(<<"7">>) }

UidObject(type, manufacturer_id, device_id) ==
  JObject([type |-> type, manufacturer_id |-> manufacturer_id, device_id |-> device_id])

UidDocs ==
  { With(NoDoc, "/uid", UidObject(ty, m, d)) :
      ty \in UidTypeValues, m \in UidManuValues, d \in UidDeviceValues }
  \cup { With(NoDoc, "/uid", v) : v \in {JNull, JString(kDynamic)} }

\* "listen_port" values around both ends of the range, above 16 bits, and at
\* 2^63 and above, where the conversion to int64_t wraps.
PortValues ==
  { JUnsigned(Bits(0)), JUnsigned(Bits(1023)), JUnsigned(Bits(1024)),
    JUnsigned(Bits(1025)), JUnsigned(Bits(8888)), JUnsigned(Bits(65534)),
    JUnsigned(Bits(65535)), JUnsigned(<<0, 0, 1, 0>>), JUnsigned(<<0, 0, 1, 4464>>),
    JUnsigned(<<0, 0, 1, 1024>>), JUnsigned(<<0, 1, 0, 8888>>),
    JUnsigned(<<32767, 65535, 65535, 65535>>), JUnsigned(<<32768, 0, 0, 0>>),
    JUnsigned(<<32768, 0, 0, 1024>>), JUnsigned(<<65535, 65535, 65535, 1024>>),
    JUnsigned(<<65535, 65535, 65535, 65535>>) }

PortDocs ==
  { With(NoDoc, "/listen_port", v) :
      v \in PortValues \cup {JNull, JInteger(<<65535, 65535, 65535, 65535>>), JFloat} }

\* Texts of every length around a limit, and the empty text.
StringsAround(limit) ==
  { JString(MkStr(n)) : n \in {0, 1, 5, limit - 1, limit, limit + 1, limit + 7} }

StringDocs ==
  { With(NoDoc, "/dns_sd/service_instance_name", v) :
      v \in StringsAround(E133_SERVICE_NAME_STRING_PADDED_LENGTH - 1) }
  \cup { With(NoDoc, "/dns_sd/manufacturer", v) :
      v \in StringsAround(E133_MANUFACTURER_STRING_PADDED_LENGTH - 1) }
  \cup { With(NoDoc, "/dns_sd/model", v) :
      v \in StringsAround(E133_MODEL_STRING_PADDED_LENGTH - 1) }
  \cup { With(NoDoc, "/scope", v) :
      v \in StringsAround(E133_SCOPE_STRING_PADDED_LENGTH - 1) \cup {JNull} }

\* Arrays of at most MaxListLen elements.
ArraysOver(elems) ==
  UNION { { JArray(a) : a \in [1..n -> elems] } : n \in 0..MaxListLen }

MacElems ==
  { JString(MacTextA), JString(MacTextAUpper), JString(MacTextB),
    JString(MacTextNull), JString(MacTextBad), JUnsigned(Bits(5)) }

IpElems ==
  { JString(IpTextV4), JString(IpTextV6), JString(IpTextV6Full),
    JString(IpTextBadOctet), JString(IpTextBad), JUnsigned(Bits(5)) }

ListDocs ==
  { With(NoDoc, "/listen_macs", v) : v \in ArraysOver(MacElems) }
  \cup { With(NoDoc, "/listen_addrs", v) : v \in ArraysOver(IpElems) }
  \cup { With(With(NoDoc, "/listen_macs", m), "/listen_addrs", a) :
           m \in { JArray(<<JString(MacTextA)>>),
                   JArray(<<JString(MacTextA), JString(MacTextBad)>>) },
           a \in { JArray(<<JString(IpTextV4)>>),
                   JArray(<<JString(IpTextV4), JString(IpTextBad)>>) } }

\* Per pointer: null, values the entry accepts and values it rejects.
SampleValues(pointer) ==
  CASE pointer = "/cid" ->
         { JNull, JString(CidTextA), JString(CidTextAUpper), JString(CidTextBad),
           JString(CidTextNil), JUnsigned(Bits(5)) }
    [] pointer = "/uid" ->
         { JNull, UidObject(JString(kDynamic), JUnsigned(Bits(25972)), Absent),
           UidObject(JString(kStatic), JUnsigned(Bits(25972)), JUnsigned(Bits(7))),
           UidObject(JString(kDynamic), JUnsigned(Bits(25972)), JUnsigned(Bits(7))),
           JString(kDynamic) }
    [] pointer = "/dns_sd/service_instance_name" ->
         { JNull, JString(MkStr(5)), JString(MkStr(70)), JString(<<>>) }
    [] pointer \in {"/dns_sd/manufacturer", "/dns_sd/model"} ->
         { JNull, JString(MkStr(4)), JString(<<>>) }
    [] pointer = "/scope" ->
         { JNull, JString(MkStr(6)), JString(MkStr(E133_SCOPE_STRING_PADDED_LENGTH)) }
    [] pointer = "/listen_port" ->
         { JNull, JUnsigned(Bits(8888)), JUnsigned(<<0, 0, 1, 4464>>) }
    [] pointer = "/listen_macs" ->
         { JNull, JArray(<<JString(MacTextA)>>),
           JArray(<<JString(MacTextB), JString(MacTextBad)>>) }
    [] pointer = "/listen_addrs" ->
         { JNull, JArray(<<JString(IpTextV4)>>),
           JArray(<<JString(IpTextV6), JString(IpTextBad)>>) }
    [] OTHER ->
         { JNull, JUnsigned(Bits(20000)), JUnsigned(<<0, 1, 0, 0>>) }

\* {"scope": null, "listen_port": 70000}
ScopeNullPort70000 ==
  With(With(NoDoc, "/scope", JNull), "/listen_port", JUnsigned(<<0, 0, 1, 4464>>))

\* A document that supplies both the CID and the service instance name.
CidAndNameDoc ==
  With(With(With(NoDoc, "/cid", JString(CidTextA)),
            "/dns_sd/service_instance_name", JString(MkStr(5))),
       "/listen_macs", JArray(<<JString(MacTextA), JString(MacTextAUpper)>>))

\* {"uid": {"type": "dynamic", "manufacturer_id": 25972}}
UidOnlyDoc ==
  With(NoDoc, "/uid", UidObject(JString(kDynamic), JUnsigned(Bits(25972)), Absent))

Docs ==
  {NoDoc, UidOnlyDoc}
  \cup UNION { { With(NoDoc, p, v) : v \in SampleValues(p) } : p \in Pointers }
  \cup { ScopeNullPort70000,
         With(With(NoDoc, "/dns_sd/manufacturer", JString(MkStr(4))),
              "/listen_port", JUnsigned(<<0, 0, 1, 4464>>)),
         With(With(NoDoc, "/cid", JString(CidTextA)),
              "/listen_macs", JArray(<<JString(MacTextA), JUnsigned(Bits(5))>>)),
         CidAndNameDoc }

\* ---------------------------------------------------------- state machine

VARIABLES
  default_cid,   \* BrokerConfig::default_cid()
  settings,      \* BrokerConfig::settings
  current_,      \* BrokerConfig::current_, the document last decoded
  result,        \* what the last Read() returned, "none" before the first
  entry,         \* table index at which the last ValidateCurrent() returned
                 \* kInvalidSetting, 0 otherwise
  initial,       \* settings as they were when the last Read() was called
  loads,         \* Read() calls made on this BrokerConfig
  twin           \* a second BrokerConfig given the same documents:
                 \* [default_cid, settings, result]

vars == <<default_cid, settings, current_, result, entry, initial, loads, twin>>

NewTwin(cid) == [default_cid |-> cid, settings |-> NewBrokerSettings, result |-> "none"]

\* BrokerConfig's constructor: a generated default CID, default-constructed
\* settings, no document.
NewBrokerConfig(cid) ==
  /\ default_cid' = cid
  /\ settings' = NewBrokerSettings
  /\ current_' = NoDoc
  /\ result' = "none"
  /\ entry' = 0
  /\ initial' = NewBrokerSettings
  /\ loads' = 0

Init ==
  /\ default_cid \in DefaultCids
  /\ settings = NewBrokerSettings
  /\ current_ = NoDoc
  /\ result = "none"
  /\ entry = 0
  /\ initial = NewBrokerSettings
  /\ loads = 0
  /\ twin = NewTwin(default_cid)

\* The BrokerConfig is replaced by a newly constructed one.
Construct(cid) ==
  /\ NewBrokerConfig(cid)
  /\ UNCHANGED twin

\* Read(file_name) of a file that cannot be opened.
ReadFileOpenErr ==
  /\ loads < MaxLoads
  /\ result' = "kFileOpenErr"
  /\ entry' = 0
  /\ initial' = settings
  /\ loads' = loads + 1
  /\ UNCHANGED <<default_cid, settings, current_, twin>>

\* Read(stream) of bytes that are not well-formed JSON: the parser throws
\* part-way through writing current_, whose content is then unspecified.
ReadJsonParseErr ==
  /\ loads < MaxLoads
  /\ current_' \in {current_, NoDoc}
  /\ result' = "kJsonParseErr"
  /\ entry' = 0
  /\ initial' = settings
  /\ loads' = loads + 1
  /\ UNCHANGED <<default_cid, settings, twin>>

\* Read(stream) of bytes that decode to `doc` (reached from Read(file_name)
\* too, once the file is open): current_ is replaced and validated.
ReadDoc(doc) ==
  /\ loads < MaxLoads
  /\ \E r \in {ValidateCurrent(doc, [default_cid |-> default_cid, settings |-> settings])} :
       /\ settings' = r.settings
       /\ result' = r.result
       /\ entry' = r.entry
  /\ current_' = doc
  /\ initial' = settings
  /\ loads' = loads + 1
  /\ UNCHANGED default_cid

Read(doc) ==
  /\ ReadDoc(doc)
  /\ UNCHANGED twin

\* Two BrokerConfig objects are constructed, each generating its own CID.
ConstructBoth(cid, twin_cid) ==
  /\ NewBrokerConfig(cid)
  /\ twin' = NewTwin(twin_cid)

\* Both BrokerConfig objects read the same document.
ReadBoth(doc) ==
  /\ ReadDoc(doc)
  /\ \E r \in {ValidateCurrent(doc, [default_cid |-> twin.default_cid,
                                      settings |-> twin.settings])} :
       twin' = [twin EXCEPT !.settings = r.settings, !.result = r.result]

ReadFails == ReadFileOpenErr \/ ReadJsonParseErr

Next ==
  \/ \E cid \in DefaultCids : Construct(cid)
  \/ ReadFails
  \/ \E doc \in Docs : Read(doc)

NextUid ==
  \/ \E cid \in DefaultCids : Construct(cid)
  \/ ReadFails
  \/ \E doc \in UidDocs : Read(doc)

NextPort ==
  \/ \E cid \in DefaultCids : Construct(cid)
  \/ ReadFails
  \/ \E doc \in PortDocs : Read(doc)

NextStrings ==
  \/ \E cid \in DefaultCids : Construct(cid)
  \/ ReadFails
  \/ \E doc \in StringDocs : Read(doc)

NextLists ==
  \/ \E cid \in DefaultCids : Construct(cid)
  \/ ReadFails
  \/ \E doc \in ListDocs : Read(doc)

NextTwin ==
  \/ \E cid \in DefaultCids, twin_cid \in DefaultCids : ConstructBoth(cid, twin_cid)
  \/ \E doc \in Docs : ReadBoth(doc)

\* The loader on the sample documents of every table entry.
Spec == Init /\ [][Next]_vars
\* The loader on "uid" objects.
SpecUid == Init /\ [][NextUid]_vars
\* The loader on "listen_port" values.
SpecPort == Init /\ [][NextPort]_vars
\* The loader on the four bounded strings.
SpecStrings == Init /\ [][NextStrings]_vars
\* The loader on "listen_macs" and "listen_addrs" arrays.
SpecLists == Init /\ [][NextLists]_vars
\* Two BrokerConfig objects loading the same documents.
SpecTwin == Init /\ [][NextTwin]_vars

\* ------------------------------------------------------------- properties

\* The last operation was a Read() that decoded current_ and validated it,
\* starting from the record `initial`.
Validated == result \in {"kOk", "kInvalidSetting"}

\* Table index of the entry with the given pointer.
EntryOf(pointer) ==
  CHOOSE i \in 1..NumSettings : kSettingsValidatorArray[i].pointer = pointer

\* The mathematical value of an unsigned 64-bit pattern lies in lo..hi, for
\* bounds below 65536.
SmallValueIn(bits, lo, hi) ==
  bits[1] = 0 /\ bits[2] = 0 /\ bits[3] = 0 /\ bits[4] >= lo /\ bits[4] <= hi

\* C1: for every recognized field, a document with the field set to null
\* loads, from the same initial record, to the same result code and the same
\* settings record as the document with the field omitted.
C1_NullSameAsOmitted ==
  Validated =>
    \A p \in Pointers :
      current_[p] = JNull =>
        LET omitted == ValidateCurrent(With(current_, p, Absent),
                         [default_cid |-> default_cid, settings |-> initial])
        IN  omitted.result = result /\ omitted.settings = settings

\* C2: a load that returns anything other than kOk leaves no value stored
\* from the failing document: the settings record is as it was before the load.
C2_NoPartialRecord ==
  (result # "none" /\ result # "kOk") => settings = initial

\* C3: loading {"scope": null, "listen_port": 70000} fails with
\* kInvalidSetting at the listen_port entry, the scope entry having been passed
\* with the scope left as it was.
C3_AbortsAtListenPort ==
  (Validated /\ current_ = ScopeNullPort70000) =>
    /\ result = "kInvalidSetting"
    /\ entry = EntryOf("/listen_port")
    /\ settings.scope = initial.scope

\* The uid objects the claim says are accepted: a string type, a manufacturer
\* id in 1..0x7fff, and a device id in 0..0xffffffff with "static" or no
\* device_id key with "dynamic".
UidAcceptable(u) ==
  LET ty == u.fields["type"]
      m == u.fields["manufacturer_id"]
      d == u.fields["device_id"]
  IN  /\ ty.t = "string"
      /\ m.t = "number_unsigned" /\ SmallValueIn(m.n, 1, 32767)
      /\ \/ ty.s = kStatic /\ d.t = "number_unsigned" /\ d.n[1] = 0 /\ d.n[2] = 0
         \/ ty.s = kDynamic /\ d = Absent

\* C4: a uid object is accepted exactly when it has a string type, an integer
\* manufacturer_id with 0 < id < 0x8000 and either type "static" with an
\* integer device_id in [0, 0xffffffff] or type "dynamic" with no device_id;
\* on acceptance the record holds that variant with those ids, and after any
\* successful load the stored manufacturer id is in [1, 0x7fff].
C4_UidAcceptedExactly ==
  /\ (Validated /\ current_["/uid"].t = "object") =>
       LET u == current_["/uid"]
           m == u.fields["manufacturer_id"]
           d == u.fields["device_id"]
       IN  /\ (result = "kOk") <=> UidAcceptable(u)
           /\ (result = "kOk" /\ u.fields["type"].s = kStatic) =>
                /\ settings.uid_type = "static"
                /\ settings.uid = [manu |-> <<m.n[4]>>, id |-> <<d.n[3], d.n[4]>>]
           /\ (result = "kOk" /\ u.fields["type"].s = kDynamic) =>
                /\ settings.uid_type = "dynamic"
                /\ settings.uid.manu = <<m.n[4]>>
  /\ result = "kOk" => settings.uid.manu[1] \in 1..32767

\* A static uid with the largest manufacturer and device ids was accepted.
C4_Witness ==
  /\ Validated /\ current_["/uid"].t = "object" /\ result = "kOk"
  /\ settings.uid_type = "static"
  /\ settings.uid = [manu |-> <<32767>>, id |-> <<65535, 65535>>]

\* An element of a listen_macs / listen_addrs array that is not a string or
\* does not parse as an address.
InvalidElement(pointer, elem) ==
  \/ elem.t # "string"
  \/ pointer = "/listen_macs" /\ MacIsNull(MacFromString(elem.s))
  \/ pointer = "/listen_addrs" /\ ~IpIsValid(IpFromString(elem.s))

\* The set of the record that the list entry fills.
ListOf(st, pointer) ==
  IF pointer = "/listen_macs" THEN st.listen_macs ELSE st.listen_addrs

\* C5: when the loader validates a listen_macs or listen_addrs array that has
\* an invalid element at any position, the load fails with kInvalidSetting at
\* that entry and the corresponding set of the record is empty afterwards.
C5_ListAllOrNothing ==
  Validated =>
    \A p \in {"/listen_macs", "/listen_addrs"} :
      ( /\ current_[p].t = "array"
        /\ \E i \in 1..Len(current_[p].elems) : InvalidElement(p, current_[p].elems[i])
        /\ (entry = 0 \/ entry >= EntryOf(p)) ) =>
        /\ result = "kInvalidSetting"
        /\ entry = EntryOf(p)
        /\ ListOf(settings, p) = {}

\* A load on a record that already held a MAC address failed on an array whose
\* first element is valid and whose second is not.
C5_Witness ==
  /\ result = "kInvalidSetting" /\ entry = EntryOf("/listen_macs")
  /\ initial.listen_macs # {}
  /\ Len(current_["/listen_macs"].elems) >= 2
  /\ ~InvalidElement("/listen_macs", current_["/listen_macs"].elems[1])
  /\ InvalidElement("/listen_macs", current_["/listen_macs"].elems[2])
  /\ settings.listen_macs = {}

\* C6: an unsigned listen_port value v is accepted exactly when
\* 1024 <= v <= 65535, values above 16 bits and values at or above 2^63
\* included, and an accepted value is stored unchanged; a rejected one fails
\* the load with kInvalidSetting.
C6_PortRange ==
  (Validated /\ current_["/listen_port"].t = "number_unsigned") =>
    LET v == current_["/listen_port"].n
    IN  /\ (result = "kOk") <=> SmallValueIn(v, 1024, 65535)
        /\ result = "kOk" => settings.listen_port = <<v[4]>>
        /\ result # "kOk" => result = "kInvalidSetting" /\ entry = EntryOf("/listen_port")

\* Port 65535 was accepted and stored.
C6_Witness ==
  /\ Validated /\ current_["/listen_port"] = JUnsigned(Bits(65535))
  /\ result = "kOk" /\ settings.listen_port = <<65535>>

\* The padded length minus one of each bounded string.
StringLimit(pointer) ==
  CASE pointer = "/dns_sd/service_instance_name" -> E133_SERVICE_NAME_STRING_PADDED_LENGTH - 1
    [] pointer = "/dns_sd/manufacturer" -> E133_MANUFACTURER_STRING_PADDED_LENGTH - 1
    [] pointer = "/dns_sd/model" -> E133_MODEL_STRING_PADDED_LENGTH - 1
    [] pointer = "/scope" -> E133_SCOPE_STRING_PADDED_LENGTH - 1

\* The string of the record that the entry fills.
StringOf(st, pointer) ==
  CASE pointer = "/dns_sd/service_instance_name" -> st.dns.service_instance_name
    [] pointer = "/dns_sd/manufacturer" -> st.dns.manufacturer
    [] pointer = "/dns_sd/model" -> st.dns.model
    [] pointer = "/scope" -> st.scope

\* C7: for the three dns_sd strings a non-empty value longer than the limit is
\* accepted and stored as its first `limit` characters, and one within the
\* limit is stored unchanged; for scope a value longer than the limit fails
\* the load and leaves the scope unchanged; an empty string fails for all four.
C7_BoundedStrings ==
  Validated =>
    /\ \A p \in {"/dns_sd/service_instance_name", "/dns_sd/manufacturer", "/dns_sd/model"} :
         (current_[p].t = "string" /\ current_[p].s # <<>>
            /\ (entry = 0 \/ entry > EntryOf(p))) =>
           LET v == current_[p].s
           IN  IF Len(v) > StringLimit(p)
               THEN /\ Len(StringOf(settings, p)) = StringLimit(p)
                    /\ \A i \in 1..StringLimit(p) : StringOf(settings, p)[i] = v[i]
               ELSE StringOf(settings, p) = v
    /\ \A p \in {"/dns_sd/service_instance_name", "/dns_sd/manufacturer", "/dns_sd/model"} :
         (current_[p].t = "string" /\ current_[p].s # <<>>) => entry # EntryOf(p)
    /\ (current_["/scope"].t = "string" /\ Len(current_["/scope"].s) > StringLimit("/scope")
          /\ (entry = 0 \/ entry >= EntryOf("/scope"))) =>
         /\ result = "kInvalidSetting" /\ entry = EntryOf("/scope")
         /\ settings.scope = initial.scope
    /\ \A p \in {"/dns_sd/service_instance_name", "/dns_sd/manufacturer",
                 "/dns_sd/model", "/scope"} :
         (current_[p] = JString(<<>>) /\ (entry = 0 \/ entry >= EntryOf(p))) =>
           result = "kInvalidSetting" /\ entry = EntryOf(p)

\* A manufacturer longer than the limit was accepted and stored cut to the
\* limit.
C7_Witness ==
  /\ result = "kOk"
  /\ current_["/dns_sd/manufacturer"].t = "string"
  /\ Len(current_["/dns_sd/manufacturer"].s) > E133_MANUFACTURER_STRING_PADDED_LENGTH - 1
  /\ Len(settings.dns.manufacturer) = E133_MANUFACTURER_STRING_PADDED_LENGTH - 1

\* A record with the two fields that derive from the CID blanked.
WithoutIdentity(st) ==
  [st EXCEPT !.cid = NullUuid, !.dns.service_instance_name = <<>>]

\* C8 as stated: two BrokerConfig objects that load the same well-formed
\* document end with settings records that are equal field for field.
C8_TwoRecordsEqual ==
  (result = "kOk" /\ twin.result = "kOk") => settings = twin.settings

\* C8 amended: loading a well-formed document again into the same BrokerConfig
\* succeeds and leaves the record as the first load left it; a second
\* BrokerConfig loading the same document succeeds too and agrees on every
\* field except cid and service_instance_name, which agree exactly when the
\* document supplies them or the two objects generated the same default CID.
C8_IdempotentPerConfig ==
  result = "kOk" =>
    /\ LET again == ValidateCurrent(current_,
                      [default_cid |-> default_cid, settings |-> settings])
       IN  again.result = "kOk" /\ again.settings = settings
    /\ twin.result = "kOk"
    /\ WithoutIdentity(settings) = WithoutIdentity(twin.settings)
    /\ (settings.cid = twin.settings.cid) <=>
         (current_["/cid"].t = "string" \/ default_cid = twin.default_cid)
    /\ (settings.dns.service_instance_name = twin.settings.dns.service_instance_name) <=>
         (current_["/dns_sd/service_instance_name"].t = "string"
            \/ default_cid = twin.default_cid)

\* Two objects with different default CIDs loaded a document that supplies
\* the CID, the service instance name and a MAC list, and hold equal records.
C8_Witness ==
  /\ result = "kOk" /\ twin.result = "kOk"
  /\ default_cid # twin.default_cid
  /\ current_ = CidAndNameDoc
  /\ settings.listen_macs # {}
  /\ settings = twin.settings

\* C9: loading the empty document succeeds, stores the declared default of
\* every entry that has a store_default (the default CID, a dynamic uid with
\* manufacturer 0x6574, "ETC RDMnet Broker " and the default CID's text, "ETC",
\* "RDMnet Broker Service") and leaves every other field as constructed; a
\* document holding only a dynamic uid with manufacturer 25972 succeeds with
\* the default identity, scope and DNS fields and that uid.
C9_DefaultsForAbsent ==
  (Validated /\ current_ \in {NoDoc, UidOnlyDoc}) =>
    /\ result = "kOk"
    /\ settings.cid = default_cid
    /\ settings.uid_type = "dynamic"
    /\ settings.uid.manu = (IF current_ = NoDoc THEN <<6 * 4096 + 5 * 256 + 7 * 16 + 4>>
                            ELSE <<25972>>)
    /\ settings.dns.service_instance_name =
         <<"E","T","C"," ","R","D","M","n","e","t"," ","B","r","o","k","e","r"," ">>
           \o UuidToString(default_cid)
    /\ Len(settings.dns.service_instance_name) = 54
    /\ settings.dns.manufacturer = <<"E","T","C">>
    /\ settings.dns.model = <<"R","D","M","n","e","t"," ","B","r","o","k","e","r"," ",
                              "S","e","r","v","i","c","e">>
    /\ \A f \in {"scope", "listen_port", "listen_macs", "listen_addrs", "max_connections",
                 "max_controllers", "max_controller_messages", "max_devices",
                 "max_device_messages", "max_reject_connections"} :
         /\ settings[f] = initial[f]
         /\ loads = 1 => settings[f] = NewBrokerSettings[f]

\* The empty document was loaded into a newly constructed BrokerConfig.
C9_Witness ==
  /\ current_ = NoDoc /\ result = "kOk" /\ loads = 1
  /\ settings.cid = default_cid /\ settings.scope = NewBrokerSettings.scope

\* The field of the record that the entry with the given pointer fills.
FieldOf(st, pointer) ==
  CASE pointer = "/cid" -> st.cid
    [] pointer = "/uid" -> <<st.uid_type, st.uid>>
    [] pointer \in {"/dns_sd/service_instance_name", "/dns_sd/manufacturer",
                    "/dns_sd/model", "/scope"} -> StringOf(st, pointer)
    [] pointer = "/listen_port" -> st.listen_port
    [] OTHER -> st[MaxLimitMember[pointer]]

\* C10: when the validate-and-store of a cid, uid, bounded string or bounded
\* integer entry fails, the field the entry fills holds the value it had before
\* the load; in particular a malformed or nil cid does not overwrite the
\* identity held before.
C10_FailedValidatorKeepsField ==
  (result = "kInvalidSetting"
     /\ kSettingsValidatorArray[entry].pointer \notin {"/listen_macs", "/listen_addrs"}) =>
    LET p == kSettingsValidatorArray[entry].pointer
    IN  FieldOf(settings, p) = FieldOf(initial, p)

=============================================================================
